---- MODULE Spec2Model ----
(***************************************************************************)
(* Model of src/error.rs: the unified error enum `Error`, the five         *)
(* `From<foreign fault> for Error` conversions and the projection          *)
(* `From<Error> for PyErr` with its `wrap_error!` predicate cascade.       *)
(*                                                                         *)
(* A run is a sequence of failures.  Each failure goes through the         *)
(* pipeline  raised -> converted -> projected:  a collaborator raises a    *)
(* foreign fault, a conversion wraps it into an `Error`, and the           *)
(* projection turns the `Error` into a Python exception (class, message).  *)
(* The four payload-free variants are constructed directly by call sites.  *)
(***************************************************************************)
EXTENDS Integers, Sequences, FiniteSets, TLC

VARIABLES pc, fault, err, exc

vars == <<pc, fault, err, exc>>

(***************************************************************************)
(* Bounds                                                                  *)
(***************************************************************************)
\* OS error codes carried by std::io::Error values range over 1..MaxOsCode.
MaxOsCode == 3

(***************************************************************************)
(* Exception classes (create_exception! declarations and the pyo3 builtin  *)
(* classes the projection names).                                          *)
(***************************************************************************)
BuiltinClasses ==
    {"BaseException", "PyException", "PyRuntimeError",
     "PyStopIteration", "PyStopAsyncIteration"}

DeclaredClasses ==
    {"BorrowingError", "DNSResolverError",
     "BaseError", "BodyError", "BuilderError", "ConnectionError",
     "DecodingError", "RedirectError", "TimeoutError", "StatusError",
     "RequestError", "UnknownError",
     "HTTPMethodParseError", "URLParseError", "MIMEParseError"}

ExceptionClasses == BuiltinClasses \cup DeclaredClasses

\* A variant of the class hierarchy in which the fallback class was declared
\* directly under the builtin exception root.
BaseUnknownDetached ==
    [c \in ExceptionClasses |->
        CASE c = "BaseException"        -> "BaseException"
          [] c = "PyException"          -> "BaseException"
          [] c = "PyRuntimeError"       -> "PyException"
          [] c = "PyStopIteration"      -> "PyException"
          [] c = "PyStopAsyncIteration" -> "PyException"
          [] c = "BorrowingError"       -> "PyRuntimeError"
          [] c = "DNSResolverError"     -> "PyRuntimeError"
          [] c = "BaseError"            -> "PyException"
          [] c = "BodyError"            -> "BaseError"
          [] c = "BuilderError"         -> "BaseError"
          [] c = "ConnectionError"      -> "BaseError"
          [] c = "DecodingError"        -> "BaseError"
          [] c = "RedirectError"        -> "BaseError"
          [] c = "TimeoutError"         -> "BaseError"
          [] c = "StatusError"          -> "BaseError"
          [] c = "RequestError"         -> "BaseError"
          [] c = "UnknownError"         -> "PyException"
          [] c = "HTTPMethodParseError" -> "PyException"
          [] c = "URLParseError"        -> "PyException"
          [] c = "MIMEParseError"       -> "PyException"]

\* Base[c] is the direct base class of c: the third argument of c's
\* create_exception!; the builtin classes derive from the builtin roots.
Base ==
    [c \in ExceptionClasses |->
        CASE c = "BaseException"        -> "BaseException"
          [] c = "PyException"          -> "BaseException"
          [] c = "PyRuntimeError"       -> "PyException"
          [] c = "PyStopIteration"      -> "PyException"
          [] c = "PyStopAsyncIteration" -> "PyException"
          [] c = "BorrowingError"       -> "PyRuntimeError"
          [] c = "DNSResolverError"     -> "PyRuntimeError"
          [] c = "BaseError"            -> "PyException"
          [] c = "BodyError"            -> "BaseError"
          [] c = "BuilderError"         -> "BaseError"
          [] c = "ConnectionError"      -> "BaseError"
          [] c = "DecodingError"        -> "BaseError"
          [] c = "RedirectError"        -> "BaseError"
          [] c = "TimeoutError"         -> "BaseError"
          [] c = "StatusError"          -> "BaseError"
          [] c = "RequestError"         -> "BaseError"
          [] c = "UnknownError"         -> "BaseError"
          [] c = "HTTPMethodParseError" -> "PyException"
          [] c = "URLParseError"        -> "PyException"
          [] c = "MIMEParseError"       -> "PyException"]

RECURSIVE IsSubclass(_, _)
\* c is d or derives from d (what `except d` catches).
IsSubclass(c, d) ==
    IF c = d THEN TRUE
    ELSE IF Base[c] = c THEN FALSE
    ELSE IsSubclass(Base[c], d)

(***************************************************************************)
(* Foreign faults: the values the conversions accept.                      *)
(***************************************************************************)
NoFault == [type |-> "none"]

\* header::InvalidHeaderName and header::InvalidHeaderValue carry no data.
InvalidHeaderNameFaults  == {[type |-> "header::InvalidHeaderName"]}
InvalidHeaderValueFaults == {[type |-> "header::InvalidHeaderValue"]}

\* url::ParseError is a field-less enum; a value is its discriminant.
UrlParseErrorNames ==
    <<"EmptyHost", "IdnaError", "InvalidPort", "InvalidIpv4Address",
      "InvalidIpv6Address", "InvalidDomainCharacter",
      "RelativeUrlWithoutBase">>

UrlParseFaults ==
    [type : {"url::ParseError"}, discr : 1..Len(UrlParseErrorNames)]

\* std::io::Error is either a bare ErrorKind or an OS error code.
IoErrorKinds == {"NotFound", "PermissionDenied", "ConnectionReset", "TimedOut"}

IoFaults ==
    [type : {"std::io::Error"}, repr : {"Simple"}, kind : IoErrorKinds]
    \cup [type : {"std::io::Error"}, repr : {"Os"}, code : 1..MaxOsCode]

\* rquest::Error is opaque: the projection only observes the results of its
\* nine is_* predicates and its Debug rendering.
Predicates ==
    {"is_body", "is_connect", "is_connection_reset", "is_decode",
     "is_redirect", "is_timeout", "is_status", "is_request", "is_builder"}

EngineKinds == {"Request", "Builder"}

EngineFaults ==
    [type : {"rquest::Error"}, kind : EngineKinds, preds : SUBSET Predicates]

ForeignFaults ==
    InvalidHeaderNameFaults \cup InvalidHeaderValueFaults
    \cup UrlParseFaults \cup IoFaults \cup EngineFaults

(***************************************************************************)
(* {:?} rendering of the payloads.                                         *)
(***************************************************************************)
Digit(d) ==
    CASE d = 0 -> "0" [] d = 1 -> "1" [] d = 2 -> "2" [] d = 3 -> "3"
      [] d = 4 -> "4" [] d = 5 -> "5" [] d = 6 -> "6" [] d = 7 -> "7"
      [] d = 8 -> "8" [] d = 9 -> "9"

RECURSIVE Decimal(_)
Decimal(n) == IF n < 10 THEN Digit(n) ELSE Decimal(n \div 10) \o Digit(n % 10)

\* decode_error_kind of the platform for the first error numbers.
OsKind(code) ==
    CASE code = 1 -> "PermissionDenied"
      [] code = 2 -> "NotFound"
      [] code = 4 -> "Interrupted"
      [] OTHER    -> "Uncategorized"

\* strerror of the platform for the first error numbers.
OsMessage(code) ==
    CASE code = 1 -> "Operation not permitted"
      [] code = 2 -> "No such file or directory"
      [] code = 3 -> "No such process"
      [] code = 4 -> "Interrupted system call"
      [] code = 5 -> "Input/output error"
      [] OTHER    -> "Unknown error " \o Decimal(code)

\* The Debug implementations of the foreign fault types.
Debug(f) ==
    CASE f.type = "header::InvalidHeaderName"  -> "InvalidHeaderName"
      [] f.type = "header::InvalidHeaderValue" -> "InvalidHeaderValue"
      [] f.type = "url::ParseError" -> UrlParseErrorNames[f.discr]
      [] f.type = "std::io::Error" /\ f.repr = "Simple" ->
            "Kind(" \o f.kind \o ")"
      [] f.type = "std::io::Error" /\ f.repr = "Os" ->
            "Os { code: " \o Decimal(f.code) \o ", kind: " \o OsKind(f.code)
                \o ", message: \"" \o OsMessage(f.code) \o "\" }"
      [] f.type = "rquest::Error" ->
            "rquest::Error { kind: " \o f.kind \o " }"


(***************************************************************************)
(* enum Error and the From<...> for Error conversions.                     *)
(***************************************************************************)
NoError == [variant |-> "none"]

NoPayloadVariants ==
    {"MemoryError", "StopIteration", "StopAsyncIteration",
     "WebSocketDisconnect"}

PayloadVariants ==
    {"InvalidHeaderName", "InvalidHeaderValue", "UrlParseError", "IoError",
     "RquestError"}

\* The values of enum Error.
Error ==
    [variant : NoPayloadVariants]
    \cup [variant : {"InvalidHeaderName"}, payload : InvalidHeaderNameFaults]
    \cup [variant : {"InvalidHeaderValue"}, payload : InvalidHeaderValueFaults]
    \cup [variant : {"UrlParseError"}, payload : UrlParseFaults]
    \cup [variant : {"IoError"}, payload : IoFaults]
    \cup [variant : {"RquestError"}, payload : EngineFaults]

\* A conversion that wraps the header-name fault in the header-value variant.
From_InvalidHeaderName_AsValue(e) ==
    [variant |-> "InvalidHeaderValue", payload |-> e]

From_InvalidHeaderName(e) == [variant |-> "InvalidHeaderName", payload |-> e]

From_InvalidHeaderValue(e) == [variant |-> "InvalidHeaderValue", payload |-> e]

From_UrlParseError(e) == [variant |-> "UrlParseError", payload |-> e]

\* A conversion that keeps only the kind of an OS error.
From_IoError_KindOnly(e) ==
    [variant |-> "IoError",
     payload |-> IF e.repr = "Os"
                 THEN [type |-> "std::io::Error", repr |-> "Simple",
                       kind |-> "NotFound"]
                 ELSE e]

From_IoError(e) == [variant |-> "IoError", payload |-> e]

From_RquestError(e) == [variant |-> "RquestError", payload |-> e]

(***************************************************************************)
(* From<Error> for PyErr.                                                  *)
(***************************************************************************)
NoExc == [class |-> "none", msg |-> ""]

RACE_CONDITION_ERROR_MSG ==
    "Due to Rust's memory management with borrowing,\n"
    \o "you cannot use certain instances multiple times as they may be consumed.\n"
    \o "\n"
    \o "This error can occur in the following cases:\n"
    \o "1) You passed a non-clonable instance to a function that requires ownership.\n"
    \o "2) You attempted to use a method that consumes ownership more than once (e.g., reading a response body twice).\n"
    \o "3) You tried to reference an instance after it was borrowed.\n"
    \o "\n"
    \o "Potential solutions:\n"
    \o "1) Avoid sharing instances; create a new instance each time you use it.\n"
    \o "2) Refrain from performing actions that consume ownership multiple times.\n"
    \o "3) Change the order of operations to reference the instance before borrowing it.\n"

\* $exception::new_err(message)
new_err(class, message) == [class |-> class, msg |-> message]

\* The arms of the cascade with the timeout test moved before the connect test.
wrap_error_arms_TimeoutFirst ==
    << <<"is_body", "BodyError">>,
       <<"is_timeout", "TimeoutError">>,
       <<"is_connect", "ConnectionError">>,
       <<"is_connection_reset", "ConnectionError">>,
       <<"is_decode", "DecodingError">>,
       <<"is_redirect", "RedirectError">>,
       <<"is_status", "StatusError">>,
       <<"is_request", "RequestError">>,
       <<"is_builder", "BuilderError">> >>

\* The `$variant => $exception` arms the projection passes to wrap_error!,
\* in the order written.
wrap_error_arms ==
    << <<"is_body", "BodyError">>,
       <<"is_connect", "ConnectionError">>,
       <<"is_connection_reset", "ConnectionError">>,
       <<"is_decode", "DecodingError">>,
       <<"is_redirect", "RedirectError">>,
       <<"is_timeout", "TimeoutError">>,
       <<"is_status", "StatusError">>,
       <<"is_request", "RequestError">>,
       <<"is_builder", "BuilderError">> >>

\* A fallback that reuses the class of the last arm.
wrap_error_fallback_AsBuilder(error) ==
    new_err("BuilderError", "Unknown error occurred: " \o Debug(error))

\* A cascade that ends without producing an exception.
wrap_error_fallback_Missing(error) == NoExc

\* The expression after the `$( ... )*` repetition of wrap_error!.
wrap_error_fallback(error) ==
    new_err("UnknownError", "Unknown error occurred: " \o Debug(error))

RECURSIVE wrap_error_from(_, _)
\* The expansion of wrap_error! from its i-th arm on: the first arm whose
\* predicate holds returns.
wrap_error_from(error, i) ==
    IF i > Len(wrap_error_arms) THEN wrap_error_fallback(error)
    ELSE IF wrap_error_arms[i][1] \in error.preds
         THEN new_err(wrap_error_arms[i][2],
                      wrap_error_arms[i][1] \o " error: " \o Debug(error))
         ELSE wrap_error_from(error, i + 1)

wrap_error(error) == wrap_error_from(error, 1)

\* The `match err { ... }` expression of From<Error> for PyErr.
from_match(e) ==
    CASE e.variant = "MemoryError" ->
            new_err("PyRuntimeError", RACE_CONDITION_ERROR_MSG)
      [] e.variant = "StopIteration" ->
            new_err("PyStopIteration", "The iterator is exhausted")
      [] e.variant = "StopAsyncIteration" ->
            new_err("PyStopAsyncIteration", "The iterator is exhausted")
      [] e.variant = "WebSocketDisconnect" ->
            new_err("PyRuntimeError", "The WebSocket has been disconnected")
      [] e.variant = "InvalidHeaderName" ->
            new_err("PyRuntimeError",
                    "Invalid header name: " \o Debug(e.payload))
      [] e.variant = "InvalidHeaderValue" ->
            new_err("PyRuntimeError",
                    "Invalid header value: " \o Debug(e.payload))
      [] e.variant = "UrlParseError" ->
            new_err("URLParseError", "URL parse error: " \o Debug(e.payload))
      [] e.variant = "IoError" ->
            new_err("PyRuntimeError", "IO error: " \o Debug(e.payload))
      [] e.variant = "RquestError" -> wrap_error(e.payload)

\* The header-value arm pasted from the header-name arm, message unchanged.
PyErr_from_HeaderValuePasted(e) ==
    IF e.variant = "InvalidHeaderValue"
    THEN new_err("PyRuntimeError", "Invalid header name: " \o Debug(e.payload))
    ELSE from_match(e)

\* The asynchronous exhaustion arm pasted from the synchronous one.
PyErr_from_AsyncPasted(e) ==
    IF e.variant = "StopAsyncIteration"
    THEN new_err("PyStopIteration", "The iterator is exhausted")
    ELSE from_match(e)

\* The URL arm raising the neighbouring parse-error class.
PyErr_from_UrlAsMime(e) ==
    IF e.variant = "UrlParseError"
    THEN new_err("MIMEParseError", "URL parse error: " \o Debug(e.payload))
    ELSE from_match(e)

\* fn from(err: Error) -> PyErr
PyErr_from(e) == from_match(e)

(***************************************************************************)
(* The pipeline.                                                           *)
(***************************************************************************)
TypeOK ==
    /\ pc \in {"idle", "raised", "converted", "projected"}
    /\ fault \in ForeignFaults \cup {NoFault}
    /\ err \in Error \cup {NoError}

Init ==
    /\ pc = "idle"
    /\ fault = NoFault
    /\ err = NoError
    /\ exc = NoExc

\* A collaborator fails with a foreign fault.
Fail ==
    /\ pc \in {"idle", "projected"}
    /\ \E f \in ForeignFaults : fault' = f
    /\ err' = NoError
    /\ exc' = NoExc
    /\ pc' = "raised"

\* A call site constructs one of the payload-free variants itself.
Raise ==
    /\ pc \in {"idle", "projected"}
    /\ \E v \in NoPayloadVariants : err' = [variant |-> v]
    /\ fault' = NoFault
    /\ exc' = NoExc
    /\ pc' = "converted"

ConvertInvalidHeaderName ==
    /\ pc = "raised"
    /\ fault.type = "header::InvalidHeaderName"
    /\ err' = From_InvalidHeaderName(fault)
    /\ pc' = "converted"
    /\ UNCHANGED <<fault, exc>>

ConvertInvalidHeaderValue ==
    /\ pc = "raised"
    /\ fault.type = "header::InvalidHeaderValue"
    /\ err' = From_InvalidHeaderValue(fault)
    /\ pc' = "converted"
    /\ UNCHANGED <<fault, exc>>

ConvertUrlParseError ==
    /\ pc = "raised"
    /\ fault.type = "url::ParseError"
    /\ err' = From_UrlParseError(fault)
    /\ pc' = "converted"
    /\ UNCHANGED <<fault, exc>>

ConvertIoError ==
    /\ pc = "raised"
    /\ fault.type = "std::io::Error"
    /\ err' = From_IoError(fault)
    /\ pc' = "converted"
    /\ UNCHANGED <<fault, exc>>

ConvertRquestError ==
    /\ pc = "raised"
    /\ fault.type = "rquest::Error"
    /\ err' = From_RquestError(fault)
    /\ pc' = "converted"
    /\ UNCHANGED <<fault, exc>>

\* The Error crosses into the host runtime.
Project ==
    /\ pc = "converted"
    /\ exc' = PyErr_from(err)
    /\ pc' = "projected"
    /\ UNCHANGED <<fault, err>>

Next ==
    \/ Fail
    \/ Raise
    \/ ConvertInvalidHeaderName
    \/ ConvertInvalidHeaderValue
    \/ ConvertUrlParseError
    \/ ConvertIoError
    \/ ConvertRquestError
    \/ Project

Spec == Init /\ [][Next]_vars


(***************************************************************************)
(* Properties.  `err` is the Error most recently constructed, `fault` the  *)
(* foreign fault it was converted from (NoFault for the payload-free       *)
(* variants) and, once pc = "projected", `exc` is its projection.          *)
(***************************************************************************)
Projected == pc = "projected"

IsEngine == err.variant = "RquestError"

\* The order and the classes the cascade is documented to have.
DocumentedOrder ==
    <<"is_body", "is_connect", "is_connection_reset", "is_decode",
      "is_redirect", "is_timeout", "is_status", "is_request", "is_builder">>

DocumentedClass ==
    <<"BodyError", "ConnectionError", "ConnectionError", "DecodingError",
      "RedirectError", "TimeoutError", "StatusError", "RequestError",
      "BuilderError">>

\* C1: the projection of an engine fault has the class of the first
\* predicate, in the documented order, that the fault satisfies; a fault that
\* is both connect and timeout (and not body) is a ConnectionError.
C1_CascadeOrder ==
    (Projected /\ IsEngine) =>
        /\ \A i \in 1..Len(DocumentedOrder) :
              ( /\ DocumentedOrder[i] \in err.payload.preds
                /\ \A j \in 1..(i - 1) :
                      DocumentedOrder[j] \notin err.payload.preds )
              => exc.class = DocumentedClass[i]
        /\ ( /\ {"is_connect", "is_timeout"} \subseteq err.payload.preds
             /\ "is_body" \notin err.payload.preds )
           => exc.class = "ConnectionError"

C1_Witness ==
    /\ Projected /\ IsEngine
    /\ err.payload.preds = {"is_connect", "is_timeout", "is_builder"}
    /\ exc.class = "ConnectionError"

\* C2: an engine fault satisfying no predicate projects to UnknownError with
\* the message "Unknown error occurred: " followed by the fault's debug
\* rendering, and nothing else projects to UnknownError.
C2_FallbackOnlyWhenNoPredicate ==
    Projected =>
        /\ (exc.class = "UnknownError") <=>
              (IsEngine /\ err.payload.preds = {})
        /\ (exc.class = "UnknownError") =>
              exc.msg = "Unknown error occurred: " \o Debug(err.payload)

C2_Witness ==
    /\ Projected /\ IsEngine
    /\ err.payload.preds = {}
    /\ exc = [class |-> "UnknownError",
              msg |-> "Unknown error occurred: rquest::Error { kind: Request }"]

\* C3: every Error value can be projected, and the projection is one declared
\* exception class together with a non-empty message.
C3_ProjectorTotal ==
    /\ (pc = "converted") => (err \in Error /\ ENABLED Project)
    /\ Projected => (exc.class \in ExceptionClasses /\ Len(exc.msg) > 0)

C3_Witness ==
    /\ Projected /\ IsEngine
    /\ err.payload.preds = {}
    /\ err.payload.kind = "Builder"
    /\ exc.class \in ExceptionClasses
    /\ Len(exc.msg) > 0

\* C4: the ownership-violation variant Error::MemoryError projects to the
\* BorrowingError class.
C4_MemoryErrorIsBorrowingError ==
    (Projected /\ err.variant = "MemoryError") => exc.class = "BorrowingError"

\* The class a header-name, resp. header-value, fault ends up with.
HeaderNameClasses ==
    {PyErr_from(From_InvalidHeaderName(f)).class :
        f \in InvalidHeaderNameFaults}

HeaderValueClasses ==
    {PyErr_from(From_InvalidHeaderValue(f)).class :
        f \in InvalidHeaderValueFaults}

\* C5 as stated: a header-name fault never projects to the class a
\* header-value fault projects to, and vice versa.
C5_HeaderClassesDiffer ==
    Projected =>
        /\ (fault \in InvalidHeaderNameFaults) =>
              exc.class \notin HeaderValueClasses
        /\ (fault \in InvalidHeaderValueFaults) =>
              exc.class \notin HeaderNameClasses

\* C5 as amended: a header-name fault is converted to the InvalidHeaderName
\* variant and a header-value fault to the InvalidHeaderValue variant, never
\* the other way round; both project to the same class, PyRuntimeError, and
\* differ in the message: "Invalid header name: ..." against
\* "Invalid header value: ...".
C5_HeaderFaultsDifferByMessage ==
    Projected =>
        /\ (fault \in InvalidHeaderNameFaults) =>
              /\ err.variant = "InvalidHeaderName"
              /\ exc = [class |-> "PyRuntimeError",
                        msg |-> "Invalid header name: InvalidHeaderName"]
        /\ (fault \in InvalidHeaderValueFaults) =>
              /\ err.variant = "InvalidHeaderValue"
              /\ exc = [class |-> "PyRuntimeError",
                        msg |-> "Invalid header value: InvalidHeaderValue"]

C5_Witness ==
    /\ Projected
    /\ fault \in InvalidHeaderNameFaults
    /\ exc.class = "PyRuntimeError"
    /\ exc.class \in HeaderValueClasses

ParseIoVariants ==
    {"InvalidHeaderName", "InvalidHeaderValue", "UrlParseError", "IoError"}

\* The names a reader could take for the <Category> of a variant.
CategoryNames ==
    {"Invalid header name", "Invalid header value", "Invalid header",
     "InvalidHeaderName", "InvalidHeaderValue", "Header name", "Header value",
     "URL parse", "UrlParseError", "URL", "IO", "IoError", "Io"}

\* C6 as stated: the message of each of the four payload-carrying parse/I/O
\* variants is a category name, then " error: ", then the debug rendering of
\* the payload.
C6_CategoryErrorForm ==
    (Projected /\ err.variant \in ParseIoVariants) =>
        \E cat \in CategoryNames :
            exc.msg = cat \o " error: " \o Debug(err.payload)

\* C6 as amended: the message is a fixed prefix followed by the debug
\* rendering of the payload, where the prefix is "URL parse error: " for
\* UrlParseError and "IO error: " for IoError, but "Invalid header name: "
\* for InvalidHeaderName and "Invalid header value: " for InvalidHeaderValue
\* (these two have no " error" before the colon).
C6_PrefixThenDebug ==
    (Projected /\ err.variant \in ParseIoVariants) =>
        exc.msg =
            (CASE err.variant = "InvalidHeaderName"  -> "Invalid header name: "
               [] err.variant = "InvalidHeaderValue" -> "Invalid header value: "
               [] err.variant = "UrlParseError"      -> "URL parse error: "
               [] err.variant = "IoError"            -> "IO error: ")
            \o Debug(err.payload)

C6_Witness ==
    /\ Projected
    /\ err.variant = "InvalidHeaderValue"
    /\ exc.msg = "Invalid header value: InvalidHeaderValue"

\* C7: each payload-free variant projects to a fixed class outside the
\* BaseError subtree with a fixed message: MemoryError the ownership-violation
\* text, StopIteration the StopIteration class and StopAsyncIteration the
\* StopAsyncIteration class with "The iterator is exhausted",
\* WebSocketDisconnect "The WebSocket has been disconnected".
C7_UsageErrorsFixed ==
    (Projected /\ err.variant \in NoPayloadVariants) =>
        /\ ~IsSubclass(exc.class, "BaseError")
        /\ (err.variant = "MemoryError") =>
              /\ exc.msg = RACE_CONDITION_ERROR_MSG
              /\ exc.class = "PyRuntimeError"
        /\ (err.variant = "StopIteration") =>
              exc = [class |-> "PyStopIteration",
                     msg |-> "The iterator is exhausted"]
        /\ (err.variant = "StopAsyncIteration") =>
              exc = [class |-> "PyStopAsyncIteration",
                     msg |-> "The iterator is exhausted"]
        /\ (err.variant = "WebSocketDisconnect") =>
              /\ exc.msg = "The WebSocket has been disconnected"
              /\ exc.class = "PyRuntimeError"

C7_Witness ==
    /\ Projected
    /\ err.variant = "StopAsyncIteration"
    /\ exc.class = "PyStopAsyncIteration"
    /\ fault = NoFault

\* C8: a projection is BaseError or a subclass of it exactly when the Error
\* is an engine fault (the UnknownError fallback included).
C8_BaseErrorIffEngine ==
    Projected => (IsSubclass(exc.class, "BaseError") <=> IsEngine)

C8_Witness ==
    /\ Projected /\ IsEngine
    /\ exc.class = "UnknownError"
    /\ IsSubclass(exc.class, "BaseError")

\* The variant each foreign fault type is documented to convert to.
DocumentedVariant(type) ==
    CASE type = "header::InvalidHeaderName"  -> "InvalidHeaderName"
      [] type = "header::InvalidHeaderValue" -> "InvalidHeaderValue"
      [] type = "url::ParseError"            -> "UrlParseError"
      [] type = "std::io::Error"             -> "IoError"
      [] type = "rquest::Error"              -> "RquestError"

\* C9: every foreign fault can be converted; the result is the variant
\* matching the fault's type (a different variant for each type, never a
\* payload-free one) and carries the fault unchanged as its payload.
C9_ConversionsLossless ==
    /\ (pc = "raised") =>
          ENABLED ( \/ ConvertInvalidHeaderName \/ ConvertInvalidHeaderValue
                    \/ ConvertUrlParseError \/ ConvertIoError
                    \/ ConvertRquestError )
    /\ (pc \in {"converted", "projected"} /\ fault # NoFault) =>
          /\ err.variant = DocumentedVariant(fault.type)
          /\ err.variant \notin NoPayloadVariants
          /\ err.payload = fault
    /\ \A s, t \in {"header::InvalidHeaderName", "header::InvalidHeaderValue",
                    "url::ParseError", "std::io::Error", "rquest::Error"} :
          (s # t) => DocumentedVariant(s) # DocumentedVariant(t)

C9_Witness ==
    /\ pc = "converted"
    /\ fault.type = "std::io::Error"
    /\ fault.repr = "Os"
    /\ err = [variant |-> "IoError", payload |-> fault]

\* C10: the URL-parse variant projects to URLParseError with the message
\* "URL parse error: " followed by the debug rendering of the parse fault
\* ("URL parse error: EmptyHost" for EmptyHost), and the projection never
\* produces HTTPMethodParseError or MIMEParseError.
C10_UrlParseProjection ==
    Projected =>
        /\ (err.variant = "UrlParseError") =>
              /\ exc.class = "URLParseError"
              /\ exc.msg = "URL parse error: " \o Debug(err.payload)
              /\ (Debug(err.payload) = "EmptyHost") =>
                    exc.msg = "URL parse error: EmptyHost"
        /\ exc.class \notin {"HTTPMethodParseError", "MIMEParseError"}

C10_Witness ==
    /\ Projected
    /\ err.variant = "UrlParseError"
    /\ Debug(err.payload) = "EmptyHost"
    /\ exc = [class |-> "URLParseError", msg |-> "URL parse error: EmptyHost"]

====
